---- MODULE Spec2Model ----
(***************************************************************************)
(* Model of the lyrics pipeline of AudioMetadataManager                    *)
(* (src/audio_metadata.py): split_lyrics_formats, _normalize_lrc,          *)
(* _lrc_to_plain, lrc_to_srt and the SYLT part of embed_metadata_mp3.      *)
(*                                                                         *)
(* A Python str is a sequence of one-character strings; a Python value     *)
(* that may be None is a record [tag, s].  The regular expressions of the  *)
(* source are modelled by scanners over the characters.                    *)
(***************************************************************************)
EXTENDS Integers, Sequences, FiniteSets, TLC

VARIABLES
    raw,         \* lyrics_raw: the text received for the track (or None)
    npieces,     \* number of pieces raw was assembled from
    pc,          \* the call that returned (or raised) last
    exc,         \* the exception a call raised, "" when none
    arg,         \* lyrics_lrc of the last lrc_to_srt / embed_metadata_mp3 call
    plain_text,  \* plain_text of split_lyrics_formats, result of _lrc_to_plain
    lrc_text,    \* lrc_text of split_lyrics_formats, result of _normalize_lrc
    renorm,      \* result of _normalize_lrc applied to lrc_text
    entries,     \* lrc_to_srt: entries after the sort
    blocks,      \* lrc_to_srt: (idx, start_ms, end_ms, text) of each block
    srt,         \* lrc_to_srt: the returned text
    sylt_items,  \* embed_metadata_mp3: sylt_items
    tags         \* embed_metadata_mp3: the lyrics frames added to audio.tags

vars == <<raw, npieces, pc, exc, arg, plain_text, lrc_text, renorm,
          entries, blocks, srt, sylt_items, tags>>

\* ------------------------------------------------------------------------
\* Bounds of the model
\* ------------------------------------------------------------------------

\* Largest number of pieces an input text is assembled from.
MaxPieces == 4

\* ------------------------------------------------------------------------
\* Python values
\* ------------------------------------------------------------------------

None == [tag |-> "None", s |-> <<>>]

Str(s) == [tag |-> "str", s |-> s]

IsNone(v) == v.tag = "None"

\* Python truthiness of an Optional[str]: None and "" are falsy.
Truthy(v) == v.tag = "str" /\ v.s # <<>>

\* ------------------------------------------------------------------------
\* Characters
\* ------------------------------------------------------------------------

DigitChars == <<"0", "1", "2", "3", "4", "5", "6", "7", "8", "9">>

\* \d of the patterns, str.isdigit on one character
IsDigit(c) == \E k \in 1..10 : DigitChars[k] = c

\* \s of the patterns, the characters str.strip removes
IsSpace(c) == c \in {" ", "\t", "\n", "\r", "\f"}

\* the line boundaries of str.splitlines
IsLineBreak(c) == c \in {"\n", "\r", "\f"}

DigitVal(c) == (CHOOSE k \in 1..10 : DigitChars[k] = c) - 1

\* the character at index i, "" outside the string
At(s, i) == IF i >= 1 /\ i <= Len(s) THEN s[i] ELSE ""

Drop(s, n) == SubSeq(s, n + 1, Len(s))

\* first index j >= i that holds no whitespace (Len(s)+1 at the end): \s*
SkipSpace(s, i) ==
    CHOOSE j \in i..(Len(s) + 1) :
        /\ \A k \in i..(j - 1) : IsSpace(s[k])
        /\ (j = Len(s) + 1 \/ ~IsSpace(s[j]))

\* str.strip()
Strip(s) ==
    IF \A k \in 1..Len(s) : IsSpace(s[k]) THEN <<>>
    ELSE LET a == CHOOSE j \in 1..Len(s) :
                      ~IsSpace(s[j]) /\ \A k \in 1..(j - 1) : IsSpace(s[k])
             b == CHOOSE j \in 1..Len(s) :
                      ~IsSpace(s[j]) /\ \A k \in (j + 1)..Len(s) : IsSpace(s[k])
         IN  SubSeq(s, a, b)

\* str.isdigit(): non-empty and digits only
IsDigitStr(s) == s # <<>> /\ \A k \in 1..Len(s) : IsDigit(s[k])

\* int(s) of a digit string
RECURSIVE ParseInt(_)
ParseInt(s) ==
    IF s = <<>> THEN 0
    ELSE ParseInt(SubSeq(s, 1, Len(s) - 1)) * 10 + DigitVal(s[Len(s)])

\* str(n) of a non-negative integer
RECURSIVE IntToStr(_)
IntToStr(n) ==
    IF n < 10 THEN <<DigitChars[n + 1]>>
    ELSE IntToStr(n \div 10) \o <<DigitChars[(n % 10) + 1]>>

RECURSIVE ZeroPad(_, _)
ZeroPad(s, w) == IF Len(s) >= w THEN s ELSE ZeroPad(<<"0">> \o s, w)

\* f"{n:02d}"
Fmt02(n) == ZeroPad(IntToStr(n), 2)

\* f"{n:03d}"
Fmt03(n) == ZeroPad(IntToStr(n), 3)

\* str.splitlines(): no line for the empty string, none after a final break,
\* "\r\n" is one break
RECURSIVE SplitLines(_)
SplitLines(s) ==
    IF s = <<>> THEN <<>>
    ELSE IF \A k \in 1..Len(s) : ~IsLineBreak(s[k]) THEN <<s>>
    ELSE LET k == CHOOSE j \in 1..Len(s) :
                      IsLineBreak(s[j]) /\ \A i \in 1..(j - 1) : ~IsLineBreak(s[i])
             w == IF s[k] = "\r" /\ At(s, k + 1) = "\n" THEN 2 ELSE 1
         IN  <<SubSeq(s, 1, k - 1)>> \o SplitLines(Drop(s, k + w - 1))

\* "\n".join(lines)
RECURSIVE JoinLines(_)
JoinLines(lines) ==
    IF lines = <<>> THEN <<>>
    ELSE IF Len(lines) = 1 THEN lines[1]
    ELSE lines[1] \o <<"\n">> \o JoinLines(Tail(lines))

\* re.split(r"[:\.]", s)
RECURSIVE SplitDelims(_)
SplitDelims(s) ==
    IF \A k \in 1..Len(s) : s[k] \notin {":", "."} THEN <<s>>
    ELSE LET k == CHOOSE j \in 1..Len(s) :
                      s[j] \in {":", "."} /\ \A i \in 1..(j - 1) : s[i] \notin {":", "."}
         IN  <<SubSeq(s, 1, k - 1)>> \o SplitDelims(Drop(s, k))

\* ------------------------------------------------------------------------
\* The patterns
\* ------------------------------------------------------------------------

\* \d{1,2}: at position a: the number of digits taken (greedy, and the
\* character after them must be ":"), 0 when the pattern fails
MinutesDigits(s, a) ==
    IF IsDigit(At(s, a)) /\ IsDigit(At(s, a + 1)) /\ At(s, a + 2) = ":" THEN 2
    ELSE IF IsDigit(At(s, a)) /\ At(s, a + 1) = ":" THEN 1
    ELSE 0

\* (?:[\.:]\d{1,2})? at position c: the number of characters taken
FractionLen(s, c) ==
    IF At(s, c) \in {".", ":"} /\ IsDigit(At(s, c + 1))
    THEN (IF IsDigit(At(s, c + 2)) THEN 3 ELSE 2)
    ELSE 0

\* DetectMatchEnd with \d{1,2} for the seconds as well
DetectMatchEndLoose(s, i) ==
    IF At(s, i) # "[" THEN 0
    ELSE LET a  == SkipSpace(s, i + 1)
             nd == MinutesDigits(s, a)
             b  == a + nd + 1
             ns == IF IsDigit(At(s, b)) /\ IsDigit(At(s, b + 1)) THEN 2
                   ELSE IF IsDigit(At(s, b)) THEN 1 ELSE 0
             c  == b + ns
             d  == SkipSpace(s, c + FractionLen(s, c))
         IN  IF nd > 0 /\ ns > 0 /\ At(s, d) = "]" THEN d ELSE 0

\* r"\[\s*\d{1,2}:\d{2}(?:[\.:]\d{1,2})?\s*\]" anchored at index i: the index
\* of the closing bracket, 0 when there is no match at i.  The character
\* classes of adjacent parts are disjoint, so a match at i has one parse.
DetectMatchEnd(s, i) ==
    IF At(s, i) # "[" THEN 0
    ELSE LET a  == SkipSpace(s, i + 1)
             nd == MinutesDigits(s, a)
             b  == a + nd + 1
             c  == b + 2
             d  == SkipSpace(s, c + FractionLen(s, c))
         IN  IF nd > 0 /\ IsDigit(At(s, b)) /\ IsDigit(At(s, b + 1)) /\ At(s, d) = "]"
             THEN d ELSE 0

\* time_pattern r"\[(\d{1,2}):(\d{2})(?:[\.:](\d{1,2}))?\]" anchored at
\* index i: the index of the closing bracket, 0 when there is no match at i
TimeMatchEnd(s, i) ==
    IF At(s, i) # "[" THEN 0
    ELSE LET a  == i + 1
             nd == MinutesDigits(s, a)
             b  == a + nd + 1
             c  == b + 2
             d  == c + FractionLen(s, c)
         IN  IF nd > 0 /\ IsDigit(At(s, b)) /\ IsDigit(At(s, b + 1)) /\ At(s, d) = "]"
             THEN d ELSE 0

\* the groups (1), (2), (3) of a time_pattern match at i; an absent group
\* (3) is the empty string, which `m.group(3) or 0` reads as 0
TimeGroups(s, i) ==
    LET a  == i + 1
        nd == MinutesDigits(s, a)
        b  == a + nd + 1
        c  == b + 2
        fl == FractionLen(s, c)
    IN  [g1 |-> SubSeq(s, a, a + nd - 1),
         g2 |-> SubSeq(s, b, b + 1),
         g3 |-> IF fl = 0 THEN <<>> ELSE SubSeq(s, c + 1, c + fl - 1)]

\* re.search(detection pattern, s): index of the leftmost match at or after
\* `from`, 0 when there is none
DetectSearch(s, from) ==
    IF \E i \in from..Len(s) : DetectMatchEnd(s, i) > 0
    THEN CHOOSE i \in from..Len(s) :
             DetectMatchEnd(s, i) > 0 /\ \A k \in from..(i - 1) : DetectMatchEnd(s, k) = 0
    ELSE 0

\* time_pattern.search from index `from`
TimeSearch(s, from) ==
    IF \E i \in from..Len(s) : TimeMatchEnd(s, i) > 0
    THEN CHOOSE i \in from..Len(s) :
             TimeMatchEnd(s, i) > 0 /\ \A k \in from..(i - 1) : TimeMatchEnd(s, k) = 0
    ELSE 0

\* list(time_pattern.finditer(s)): the start indices of the non-overlapping
\* matches, left to right
RECURSIVE TimeFindIter(_, _)
TimeFindIter(s, from) ==
    LET i == TimeSearch(s, from)
    IN  IF i = 0 THEN <<>>
        ELSE <<i>> \o TimeFindIter(s, TimeMatchEnd(s, i) + 1)

\* time_pattern.sub("", s)
RECURSIVE TimeSubAll(_)
TimeSubAll(s) ==
    LET i == TimeSearch(s, 1)
    IN  IF i = 0 THEN s
        ELSE SubSeq(s, 1, i - 1) \o TimeSubAll(Drop(s, TimeMatchEnd(s, i)))

\* the number of non-overlapping matches of the detection pattern in s
RECURSIVE DetectCount(_, _)
DetectCount(s, from) ==
    LET i == DetectSearch(s, from)
    IN  IF i = 0 THEN 0 ELSE 1 + DetectCount(s, DetectMatchEnd(s, i) + 1)

\* ------------------------------------------------------------------------
\* _normalize_lrc
\* ------------------------------------------------------------------------

\* repl(m) on the matched text ts = m.group(0)
Repl(ts) ==
    LET inner == Strip(SelectSeq(ts, LAMBDA c : c \notin {"[", "]"}))
        parts == SplitDelims(inner)
        mm == IF Len(parts) > 0 /\ IsDigitStr(parts[1]) THEN ParseInt(parts[1]) ELSE 0
        ss == IF Len(parts) > 1 /\ IsDigitStr(parts[2]) THEN ParseInt(parts[2]) ELSE 0
        f0 == IF Len(parts) > 2 /\ IsDigitStr(parts[3]) THEN ParseInt(parts[3]) ELSE 0
        ff == IF f0 > 99 THEN 99 ELSE IF f0 < 0 THEN 0 ELSE f0
    IN  <<"[">> \o Fmt02(mm) \o <<":">> \o Fmt02(ss) \o <<".">> \o Fmt02(ff) \o <<"]">>

\* one turn of the loop over the lines: re.sub(pattern, repl, line, count=1)
\* when re.search finds the pattern, the line itself otherwise
NormalizeLine(line) ==
    LET i == DetectSearch(line, 1)
    IN  IF i = 0 THEN line
        ELSE LET e == DetectMatchEnd(line, i)
             IN  SubSeq(line, 1, i - 1) \o Repl(SubSeq(line, i, e)) \o Drop(line, e)

\* not line.strip()
IsBlank(line) == Strip(line) = <<>>

\* PopLeadingBlank with `if` for `while`: one blank line popped at most
PopLeadingBlankOnce(lines) ==
    IF lines # <<>> /\ IsBlank(lines[1]) THEN Tail(lines) ELSE lines

\* while normalized_lines and not normalized_lines[0].strip(): pop(0)
RECURSIVE PopLeadingBlank(_)
PopLeadingBlank(lines) ==
    IF lines # <<>> /\ IsBlank(lines[1]) THEN PopLeadingBlank(Tail(lines)) ELSE lines

\* while normalized_lines and not normalized_lines[-1].strip(): pop()
RECURSIVE PopTrailingBlank(_)
PopTrailingBlank(lines) ==
    IF lines # <<>> /\ IsBlank(lines[Len(lines)])
    THEN PopTrailingBlank(SubSeq(lines, 1, Len(lines) - 1)) ELSE lines

normalize_lrc(lyrics_lrc) ==
    LET lines == SplitLines(lyrics_lrc)
        normalized_lines == [k \in 1..Len(lines) |-> NormalizeLine(lines[k])]
    IN  JoinLines(PopTrailingBlank(PopLeadingBlank(normalized_lines)))

\* ------------------------------------------------------------------------
\* _lrc_to_plain
\* ------------------------------------------------------------------------

\* LeadGroupLen with the greedy .+ for [^\]]+: the group runs to the last "]"
LeadGroupLenGreedy(line) ==
    LET a == SkipSpace(line, 1)
    IN  IF At(line, a) # "[" THEN 0
        ELSE IF \A k \in (a + 2)..Len(line) : line[k] # "]" THEN 0
        ELSE LET c == CHOOSE j \in (a + 2)..Len(line) :
                          line[j] = "]" /\ \A k \in (j + 1)..Len(line) : line[k] # "]"
             IN  SkipSpace(line, c + 1) - 1

\* r"^\s*\[[^\]]+\]\s*" on a line: the number of characters the match takes
\* at the start of the line, 0 when the pattern does not match
LeadGroupLen(line) ==
    LET a == SkipSpace(line, 1)
    IN  IF At(line, a) # "[" THEN 0
        ELSE IF \A k \in (a + 1)..Len(line) : line[k] # "]" THEN 0
        ELSE LET c == CHOOSE j \in (a + 1)..Len(line) :
                          line[j] = "]" /\ \A k \in (a + 1)..(j - 1) : line[k] # "]"
             IN  IF c = a + 1 THEN 0 ELSE SkipSpace(line, c + 1) - 1

\* re.sub(r"^\s*\[[^\]]+\]\s*", "", line)
PlainLine(line) == Drop(line, LeadGroupLen(line))

lrc_to_plain(lyrics_lrc) ==
    LET lines == SplitLines(lyrics_lrc)
    IN  JoinLines([k \in 1..Len(lines) |-> PlainLine(lines[k])])

\* ------------------------------------------------------------------------
\* lrc_to_srt
\* ------------------------------------------------------------------------

\* the placeholder text of a line that holds timestamps only (U+266A)
NoteChar == "note"

\* int(m.group(k) or 0)
GroupInt(g) == IF g = <<>> THEN 0 ELSE ParseInt(g)

\* MsPart with every fraction read as hundredths of a second
MsPartHundredths(ff) == IF ff < 100 THEN ff * 10 ELSE 0

\* ms = ff * 10 if ff < 10 else ff if ff < 100 else 0
MsPart(ff) == IF ff < 10 THEN ff * 10 ELSE IF ff < 100 THEN ff ELSE 0

\* total_ms = (mm * 60 + ss) * 1000 + ms
TotalMs(mm, ss, ff) == (mm * 60 + ss) * 1000 + MsPart(ff)

\* total_ms of the time_pattern match at index i of the line
MatchMs(line, i) ==
    LET g == TimeGroups(line, i)
    IN  TotalMs(GroupInt(g.g1), GroupInt(g.g2), GroupInt(g.g3))

\* the text of a line: time_pattern.sub("", raw_line).strip(), or the note
LineText(raw_line) ==
    LET text == Strip(TimeSubAll(raw_line))
    IN  IF text = <<>> THEN <<NoteChar>> ELSE text

\* one turn of the loop over the lines: the (total_ms, text) pairs the line
\* appends; none for a blank line or a line without a match
SrtLineEntries(raw_line) ==
    IF IsBlank(raw_line) THEN <<>>
    ELSE LET times == TimeFindIter(raw_line, 1)
         IN  [k \in 1..Len(times) |->
                 [time_ms |-> MatchMs(raw_line, times[k]), text |-> LineText(raw_line)]]

RECURSIVE FlattenSeq(_)
FlattenSeq(ss) == IF ss = <<>> THEN <<>> ELSE ss[1] \o FlattenSeq(Tail(ss))

\* entries before the sort
CollectEntries(lyrics_lrc) ==
    LET lines == SplitLines(lyrics_lrc)
    IN  FlattenSeq([k \in 1..Len(lines) |-> SrtLineEntries(lines[k])])

\* list.sort(key=lambda x: x[0]): stable, ascending by time
RECURSIVE InsertByTime(_, _)
InsertByTime(sorted, e) ==
    IF sorted = <<>> THEN <<e>>
    ELSE IF sorted[Len(sorted)].time_ms <= e.time_ms THEN Append(sorted, e)
    ELSE Append(InsertByTime(SubSeq(sorted, 1, Len(sorted) - 1), e), sorted[Len(sorted)])

RECURSIVE SortByTime(_)
SortByTime(es) ==
    IF es = <<>> THEN <<>>
    ELSE InsertByTime(SortByTime(SubSeq(es, 1, Len(es) - 1)), es[Len(es)])

\* entries.sort(key=lambda x: x[0]) applied to the collected pairs
SortedEntries(lyrics_lrc) == SortByTime(CollectEntries(lyrics_lrc))

Max(a, b) == IF a >= b THEN a ELSE b

\* EndMs as the docstring words it: the next start minus 0.5 s, no floor
EndMsNoFloor(es, idx) ==
    IF idx < Len(es)
    THEN es[idx + 1].time_ms - 500
    ELSE es[idx].time_ms + 4000

\* end_ms of the entry at position idx (1-based) of the sorted list
EndMs(es, idx) ==
    IF idx < Len(es)
    THEN Max(es[idx].time_ms + 500, es[idx + 1].time_ms - 500)
    ELSE es[idx].time_ms + 4000

\* the (idx, start_ms, end_ms, text) of every turn of the enumerate loop
SrtBlocks(es) ==
    [idx \in 1..Len(es) |->
        [index |-> idx, start_ms |-> es[idx].time_ms,
         end_ms |-> EndMs(es, idx), text |-> es[idx].text]]

fmt_srt_time(ms0) ==
    LET ms == IF ms0 < 0 THEN 0 ELSE ms0
        h  == ms \div 3600000
        r1 == ms % 3600000
        m  == r1 \div 60000
        r2 == r1 % 60000
        s  == r2 \div 1000
        r3 == r2 % 1000
    IN  Fmt02(h) \o <<":">> \o Fmt02(m) \o <<":">> \o Fmt02(s) \o <<",">> \o Fmt03(r3)

Arrow == <<" ", "-", "-", ">", " ">>

\* the four srt_lines of one block
BlockLines(b) ==
    << IntToStr(b.index),
       fmt_srt_time(b.start_ms) \o Arrow \o fmt_srt_time(b.end_ms),
       b.text,
       <<>> >>

\* the returned text: "" without entries, the joined srt_lines otherwise
SrtText(es) ==
    IF es = <<>> THEN <<>>
    ELSE LET bs == SrtBlocks(es)
         IN  JoinLines(FlattenSeq([k \in 1..Len(bs) |-> BlockLines(bs[k])]))

\* ------------------------------------------------------------------------
\* embed_metadata_mp3, the lyrics tags
\* ------------------------------------------------------------------------

\* one turn of the loop over the lines: the (text, total_ms) pairs appended
SyltLineItems(raw_line) ==
    IF IsBlank(raw_line) THEN <<>>
    ELSE LET times == TimeFindIter(raw_line, 1)
         IN  [k \in 1..Len(times) |->
                 [text |-> LineText(raw_line), time_ms |-> MatchMs(raw_line, times[k])]]

\* sylt_items as handed to SYLT(...)
SyltItems(lyrics_lrc) ==
    LET lines == SplitLines(lyrics_lrc)
    IN  FlattenSeq([k \in 1..Len(lines) |-> SyltLineItems(lines[k])])

\* ------------------------------------------------------------------------
\* split_lyrics_formats
\* ------------------------------------------------------------------------

\* bool(re.search(detection pattern, lyrics_raw)) on the whole text
HasLrc(lyrics_raw) == DetectSearch(lyrics_raw, 1) > 0

\* the returned pair (plain_text, lrc_text)
split_lyrics_formats(lyrics_raw) ==
    IF ~Truthy(lyrics_raw) THEN [plain |-> None, lrc |-> None]
    ELSE IF HasLrc(lyrics_raw.s)
    THEN LET lrc == normalize_lrc(lyrics_raw.s)
         IN  [plain |-> Str(lrc_to_plain(lrc)), lrc |-> Str(lrc)]
    ELSE [plain |-> lyrics_raw, lrc |-> None]

\* ------------------------------------------------------------------------
\* The inputs
\* ------------------------------------------------------------------------

\* The pieces an input text is assembled from: timestamps in the shapes the
\* patterns tell apart, bracket groups that are no timestamps, text,
\* whitespace and a line break.
Pieces ==
    { <<"[", "0", ":", "0", "5", "]">>,                          \* [0:05]
      <<"[", "0", "0", ":", "0", "1", ":", "5", "]">>,           \* [00:01:5]
      <<"[", " ", "0", "0", ":", "0", "2", " ", "]">>,           \* [ 00:02 ]
      <<"[", "0", "0", ":", "0", "1", ".", "5", "0", "0", "]">>, \* [00:01.500]
      <<"[", "0", ":", "5", "]">>,                               \* [0:5]
      <<"N", "o", " ", "f", "r", "a", "c">>,                     \* No frac
      <<" ">>,
      <<"\n">> }

\* ------------------------------------------------------------------------
\* The state machine
\* ------------------------------------------------------------------------

Init ==
    /\ raw \in {None, Str(<<>>)}
    /\ npieces = 0
    /\ pc = "build"
    /\ exc = ""
    /\ arg = None
    /\ plain_text = None
    /\ lrc_text = None
    /\ renorm = None
    /\ entries = <<>>
    /\ blocks = <<>>
    /\ srt = None
    /\ sylt_items = <<>>
    /\ tags = {}

\* The text of the track grows by one piece before any call is made.
AppendPiece ==
    /\ pc = "build"
    /\ ~IsNone(raw)
    /\ npieces < MaxPieces
    /\ \E p \in Pieces : raw' = Str(raw.s \o p)
    /\ npieces' = npieces + 1
    /\ UNCHANGED <<pc, exc, arg, plain_text, lrc_text, renorm,
                   entries, blocks, srt, sylt_items, tags>>

\* plain_text, lrc_text = split_lyrics_formats(lyrics_raw)
SplitLyricsFormats ==
    /\ pc = "build"
    /\ LET r == split_lyrics_formats(raw)
       IN  /\ plain_text' = r.plain
           /\ lrc_text' = r.lrc
    /\ pc' = "split"
    /\ UNCHANGED <<raw, npieces, exc, arg, renorm, entries, blocks, srt,
                   sylt_items, tags>>

\* lrc_text = _normalize_lrc(lyrics_raw); None has no splitlines
NormalizeLrc ==
    /\ pc = "build"
    /\ IF IsNone(raw)
       THEN /\ exc' = "AttributeError"
            /\ pc' = "normalize_raised"
            /\ UNCHANGED lrc_text
       ELSE /\ lrc_text' = Str(normalize_lrc(raw.s))
            /\ pc' = "normalized"
            /\ UNCHANGED exc
    /\ UNCHANGED <<raw, npieces, arg, plain_text, renorm, entries, blocks, srt,
                   sylt_items, tags>>

\* _normalize_lrc applied to its own result
Renormalize ==
    /\ pc = "normalized"
    /\ renorm' = Str(normalize_lrc(lrc_text.s))
    /\ pc' = "renormalized"
    /\ UNCHANGED <<raw, npieces, exc, arg, plain_text, lrc_text, entries, blocks,
                   srt, sylt_items, tags>>

\* plain_text = _lrc_to_plain(lrc_text)
LrcToPlain ==
    /\ pc = "normalized"
    /\ plain_text' = Str(lrc_to_plain(lrc_text.s))
    /\ pc' = "plain"
    /\ UNCHANGED <<raw, npieces, exc, arg, lrc_text, renorm, entries, blocks,
                   srt, sylt_items, tags>>

\* lrc_to_srt(lyrics_lrc), on the raw text or on lrc_text; None has no
\* splitlines
LrcToSrt ==
    /\ pc \in {"build", "normalized", "split"}
    /\ arg' = IF pc = "build" THEN raw ELSE lrc_text
    /\ IF IsNone(arg')
       THEN /\ exc' = "AttributeError"
            /\ pc' = "srt_raised"
            /\ UNCHANGED <<entries, blocks, srt>>
       ELSE /\ entries' = SortedEntries(arg'.s)
            /\ blocks' = SrtBlocks(entries')
            /\ srt' = Str(SrtText(entries'))
            /\ pc' = "srt"
            /\ UNCHANGED exc
    /\ UNCHANGED <<raw, npieces, plain_text, lrc_text, renorm, sylt_items, tags>>

\* embed_metadata_mp3(..., lyrics=plain_text, lyrics_lrc=lrc_text): the SYLT
\* and USLT frames.  The import of USLT in the elif branch makes the name
\* local to the function, so the USLT(...) that follows the SYLT frame raises
\* UnboundLocalError, which the except clause around it swallows: the SYLT
\* frame is added, the duplicate USLT frame is not.
EmbedMetadataMp3 ==
    /\ pc = "split"
    /\ arg' = lrc_text
    /\ IF Truthy(lrc_text)
       THEN /\ sylt_items' = SyltItems(lrc_text.s)
            /\ tags' = IF sylt_items' # <<>>
                       THEN {[frame |-> "SYLT", desc |-> "", text |-> sylt_items']}
                       ELSE {}
       ELSE /\ tags' = IF Truthy(plain_text)
                       THEN {[frame |-> "USLT", desc |-> "", text |-> plain_text.s]}
                       ELSE {}
            /\ UNCHANGED sylt_items
    /\ pc' = "embedded"
    /\ UNCHANGED <<raw, npieces, exc, plain_text, lrc_text, renorm, entries,
                   blocks, srt>>

Next ==
    \/ AppendPiece
    \/ SplitLyricsFormats
    \/ NormalizeLrc
    \/ Renormalize
    \/ LrcToPlain
    \/ LrcToSrt
    \/ EmbedMetadataMp3

Spec == Init /\ [][Next]_vars

\* ------------------------------------------------------------------------
\* Texts of two canonical timestamps
\* ------------------------------------------------------------------------

\* the (minutes, seconds, fractional) of the timestamps of these texts
Triples ==
    [m : {0, 1}, s : {1, 5, 59}, f : {0, 5, 9, 10, 50, 99}]

Hello == <<"H", "e", "l", "l", "o">>

World == <<"W", "o", "r", "l", "d">>

\* [MM:SS.FF] of a triple
TsCanon(t) ==
    <<"[">> \o Fmt02(t.m) \o <<":">> \o Fmt02(t.s) \o <<".">> \o Fmt02(t.f) \o <<"]">>

\* "[MM:SS.FF]Hello\n[MM:SS.FF]World"
TwoLineText(t1, t2) ==
    TsCanon(t1) \o Hello \o <<"\n">> \o TsCanon(t2) \o World

\* The text of the track is a text of two lines, each a canonical timestamp
\* and a word.
InitTs ==
    /\ raw \in {Str(TwoLineText(t1, t2)) : t1 \in Triples, t2 \in Triples}
    /\ npieces = 0
    /\ pc = "build"
    /\ exc = ""
    /\ arg = None
    /\ plain_text = None
    /\ lrc_text = None
    /\ renorm = None
    /\ entries = <<>>
    /\ blocks = <<>>
    /\ srt = None
    /\ sylt_items = <<>>
    /\ tags = {}

NextTs ==
    \/ SplitLyricsFormats
    \/ NormalizeLrc
    \/ Renormalize
    \/ LrcToPlain
    \/ LrcToSrt
    \/ EmbedMetadataMp3

SpecTs == InitTs /\ [][NextTs]_vars

\* ------------------------------------------------------------------------
\* Properties
\* ------------------------------------------------------------------------

\* the texts of the concrete cases
Ts_0_05 == <<"[", "0", ":", "0", "5", "]">>

Ts_0_5 == <<"[", "0", ":", "5", "]">>

Ts_3digit == <<"[", "0", "0", ":", "0", "1", ".", "5", "0", "0", "]">>

Ts_canon_05 == <<"[", "0", "0", ":", "0", "5", ".", "0", "0", "]">>

NoFrac == <<"N", "o", " ", "f", "r", "a", "c">>

\* the text is a result of _normalize_lrc handed on to the last call
ArgIsNormalized == ~IsNone(lrc_text) /\ arg = lrc_text

\* matches of the detection pattern over the non-blank lines of a text
RECURSIVE SumSeq(_)
SumSeq(ns) == IF ns = <<>> THEN 0 ELSE ns[1] + SumSeq(Tail(ns))

DetectCountLines(text) ==
    LET lines == SplitLines(text)
    IN  SumSeq([k \in 1..Len(lines) |->
                   IF IsBlank(lines[k]) THEN 0 ELSE DetectCount(lines[k], 1)])

\* C1: normalizing a normalized text returns it unchanged:
\* _normalize_lrc(_normalize_lrc(x)) = _normalize_lrc(x) for every text x.
C1_Idempotent == pc = "renormalized" => renorm = lrc_text

\* C1 witness: a text with a leading blank line and a line of several
\* timestamps, changed by the first normalization and left alone by the second
C1_Witness ==
    /\ pc = "renormalized"
    /\ renorm = lrc_text
    /\ lrc_text.s # raw.s
    /\ LET lines == SplitLines(raw.s)
       IN  /\ Len(lines) >= 2
           /\ IsBlank(lines[1])
           /\ \E k \in 1..Len(lines) : DetectCount(lines[k], 1) >= 2

\* C2: the number of entries lrc_to_srt builds from a normalized text equals
\* the number of matches of the detection pattern over its non-blank lines.
C2_EntryCount ==
    (pc = "srt" /\ ArgIsNormalized) => Len(entries) = DetectCountLines(lrc_text.s)

C4_EmptyInput ==
    (IsNone(raw) \/ raw = Str(<<>>)) =>
        /\ pc \in {"split", "srt", "srt_raised"} => exc = ""
        /\ pc = "split" => (plain_text = None /\ lrc_text = None)
        /\ pc = "srt" => (entries = <<>> /\ srt = Str(<<>>))

\* C5, as claimed: _normalize_lrc rewrites "[0:5]No frac" to
\* "[00:05.00]No frac".
C5_ShortSeconds ==
    (pc = "normalized" /\ raw = Str(Ts_0_5 \o NoFrac))
        => lrc_text = Str(Ts_canon_05 \o NoFrac)

\* C5, amended: a timestamp needs two digits of seconds.  "[0:05]No frac" is
\* rewritten to "[00:05.00]No frac"; "[0:5]No frac" holds no timestamp:
\* _normalize_lrc returns it unchanged and split_lyrics_formats returns it as
\* plain text with no lrc text.
C5_TwoDigitSeconds ==
    /\ (pc = "normalized" /\ raw = Str(Ts_0_05 \o NoFrac))
           => lrc_text = Str(Ts_canon_05 \o NoFrac)
    /\ (pc = "normalized" /\ raw = Str(Ts_0_5 \o NoFrac)) => lrc_text = raw
    /\ (pc = "split" /\ raw = Str(Ts_0_5 \o NoFrac))
           => (plain_text = raw /\ lrc_text = None)

\* C5 witness: "[0:05]No frac" normalized
C5_Witness ==
    /\ pc = "normalized"
    /\ raw = Str(Ts_0_05 \o NoFrac)
    /\ lrc_text = Str(Ts_canon_05 \o NoFrac)

\* the items are in ascending order of time
Ascending(items) ==
    \A i, j \in 1..Len(items) : i < j => items[i].time_ms <= items[j].time_ms

\* items of equal time stand in the order they have in `collected`
KeepsInputOrder(items, collected) ==
    \A i \in 1..Len(items) :
        LET same(e) == e.time_ms = items[i].time_ms
        IN  SelectSeq(items, same) = SelectSeq(collected, same)

\* C6: the entries are in ascending order of start time, input order kept
\* among equal times, in the list lrc_to_srt turns into blocks and in the
\* list embed_metadata_mp3 writes into the SYLT frame.
C6_SortedEntries ==
    /\ pc = "srt" =>
           (Ascending(entries) /\ KeepsInputOrder(entries, CollectEntries(arg.s)))
    /\ pc = "embedded" =>
           \A f \in tags : f.frame = "SYLT" =>
               (Ascending(f.text) /\ KeepsInputOrder(f.text, SyltItems(arg.s)))

\* C7: every block that has a following block ends at the following block's
\* start minus 500 ms, and so not after the following block starts.
C7_EndBeforeNext ==
    pc = "srt" =>
        \A i \in 1..(Len(blocks) - 1) :
            /\ blocks[i].end_ms = blocks[i + 1].start_ms - 500
            /\ blocks[i].end_ms <= blocks[i + 1].start_ms

\* C8: no line of _lrc_to_plain(_normalize_lrc(raw)) holds a match of the
\* timestamp pattern.
C8_PlainHasNoTimestamp ==
    (pc = "plain" \/ (pc = "split" /\ ~IsNone(lrc_text))) =>
        LET lines == SplitLines(plain_text.s)
        IN  \A k \in 1..Len(lines) : DetectSearch(lines[k], 1) = 0

\* whitespace, one bracket group [...] with no "]" inside, whitespace
IsLeadGroup(p) ==
    \E a, c \in 1..Len(p) :
        /\ a + 1 < c
        /\ p[a] = "[" /\ p[c] = "]"
        /\ \A k \in 1..(a - 1) : IsSpace(p[k])
        /\ \A k \in (a + 1)..(c - 1) : p[k] # "]"
        /\ \A k \in (c + 1)..Len(p) : IsSpace(p[k])

\* out is line without a prefix that is empty or one leading bracket group
\* with the whitespace around it
PrefixOnly(line, out) ==
    \E n \in 0..Len(line) :
        /\ out = Drop(line, n)
        /\ (n = 0 \/ IsLeadGroup(SubSeq(line, 1, n)))

C10_ThreeDigitFraction ==
    /\ (pc \in {"srt", "srt_raised"} /\ arg = Str(Ts_3digit \o NoFrac)) =>
           /\ exc = ""
           /\ Len(entries) = 1
           /\ entries[1].time_ms = 1000
    /\ (pc = "embedded" /\ raw = Str(Ts_3digit \o NoFrac)) =>
           /\ Len(sylt_items) = 1
           /\ sylt_items[1].time_ms = 1000

\* the two digits at i, i + 1 of a text, as a number
FieldAt(s, i) == DigitVal(s[i]) * 10 + DigitVal(s[i + 1])

\* the triple of the canonical timestamp that starts at index i
TripleAt(s, i) ==
    [m |-> FieldAt(s, i + 1), s |-> FieldAt(s, i + 4), f |-> FieldAt(s, i + 7)]

\* the triples of the first and of the second line of a two-line text
Line1Triple(s) == TripleAt(s, 1)

Line2Triple(s) == TripleAt(s, 17)

\* the start time the millisecond rule gives a triple
RuleMs(t) ==
    (t.m * 60 + t.s) * 1000
        + (IF t.f < 10 THEN t.f * 10 ELSE IF t.f < 100 THEN t.f ELSE 0)

\* "[00:01.50]Hello\n[00:05.00]World"
ConcreteCase == TwoLineText([m |-> 0, s |-> 1, f |-> 50], [m |-> 0, s |-> 5, f |-> 0])

LexLeq(t1, t2) ==
    \/ t1.m < t2.m
    \/ (t1.m = t2.m /\ t1.s < t2.s)
    \/ (t1.m = t2.m /\ t1.s = t2.s /\ t1.f <= t2.f)

\* C12: the conversion to milliseconds keeps the order of the timestamps:
\* when the first line's (minutes, seconds, fractional) is lexicographically
\* at most the second line's, the first line's start time is at most the
\* second line's, so the sort leaves the two entries in line order.
C12_OrderPreserved ==
    /\ (pc = "embedded" /\ LexLeq(Line1Triple(arg.s), Line2Triple(arg.s))) =>
           sylt_items[1].time_ms <= sylt_items[2].time_ms
    /\ (pc = "srt" /\ LexLeq(Line1Triple(arg.s), Line2Triple(arg.s))) =>
           (entries[1].text = Hello /\ entries[2].text = World)

====
